---- MODULE Spec2Model ----
(***************************************************************************)
(* Peer pool (src/src/peer_pool.rs) and block listener session             *)
(* (src/src/peer.rs) of the Chia block listener, as a state machine.       *)
(*                                                                         *)
(* Time.  std::time::Instant is opaque: the code only ever compares the    *)
(* distance between two instants with RATE_LIMIT_MS.  The model keeps every *)
(* recorded instant relative to a sliding origin: the current instant is   *)
(* always `now`, and the passing of time moves every recorded instant into *)
(* the past, saturating at 0 ("at least `now` milliseconds ago").          *)
(*                                                                         *)
(* Option<T> is the set of at most one element: None is {}, Some(x) is {x}.*)
(***************************************************************************)
EXTENDS Integers, Sequences, FiniteSets, TLC

\* ---- program constants
RATE_LIMIT_MS == 500
REQUEST_CHANNEL_CAPACITY == 100
WORKER_CHANNEL_CAPACITY == 10
DISPATCH_SLEEP_MS == 50
BLOCK_CHANNEL_CAPACITY == 100
MAX_ATTEMPTS == 100
MIN_INTERVAL_MS == 200
\* amounts are in units of 10^9 mojos: 250000000000 and 1750000000000 mojos
FARMER_REWARD == 250
POOL_REWARD == 1750

\* ---- bounds of the model
MaxWorkers == 2
MaxRequests == 3
MaxHeight == 2
MaxRequestHeight == 1
ClockQuantum == 250
MaxRoundRobinRequests == 4
MaxLoadRequests == 12
MaxBacklogRequests == 102
MaxPeaks == 3
MaxSessionCalls == 3
SessionQuantum == 100
MaxListLen == 2
MaxPeakRequests == 2
MaxIndexedHeight == 4
MaxFrameLen == 4
MaxListenedBlocks == 2

PeerIds == {"A", "B"}
Workers == 1..MaxWorkers
Heights == 1..MaxHeight
RequestHeights == 1..MaxRequestHeight
\* the ChiaError variants a failed fetch answers with
FetchErrors == {"Connection", "Protocol"}

None == {}
Some(x) == {x}
TheOne(opt) == CHOOSE x \in opt : TRUE

VARIABLES
    \* ChiaPeerPoolInner
    peers, peer_ids, current_index, highest_peak,
    \* who holds inner's write lock ("free" when nobody)
    lock,
    \* mpsc channel of PoolRequest and the dispatcher task
    request_chan, request_queue, dpc, dsend,
    \* one worker task and one mpsc channel of WorkerRequest per add_peer
    n_workers, wpeer, wpc, wchan, wreq, wblock,
    \* callers of get_block_by_height: what came back on the reply channel
    n_requests, reply,
    \* history: the dispatcher's selections
    dispatch_log, selected_at, last_gap, last_entry_gap,
    \* a listening session: PeerConnection::listen_for_blocks and its block channel
    ls_pc, ls_outstanding, ls_blocks, ls_peaks,
    \* the add_peer call that holds the guard, between its insert and its return
    adding,
    \* what the last step let the embedding runtime observe: the value a
    \* remove_peer call returned, the event callback it invoked
    returned, emitted,
    \* the NEW_PEAK_WALLET frame a worker read in the last step
    heard,
    \* one connection of a worker: PeerConnection::handshake, then the block request
    hs_pc, hs_network_id, hs_frame, hs_result, hs_requests,
    \* one call of PeerConnection::request_block_by_height
    rb_pc, rb_attempts, rb_skipped, rb_result, rb_height, rb_block,
    \* a PeerSession: its connection, the time since last_request_time, the attempt
    \* of the call in progress; history: the time since the last REQUEST_BLOCK frame
    \* and the time between the last two
    ps_pc, ps_ws_stream, ps_since_request, ps_attempt, ps_calls, ps_since_frame, ps_gap,
    \* a FullBlock and what the two decoders make of it: BlockParser::parse_full_block
    \* and process_block_to_data
    pb_block, pb_parsed, pb_data,
    \* one Message of chia-listener-core through to_bytes and from_bytes
    cd_message, cd_bytes, cd_decoded,
    \* a BlockIndexer: the heights in its blocks table, IndexerState, and what the
    \* last insert_block returned
    ix_blocks, ix_last_indexed_height, ix_result,
    \* one peer of a ChiaBlockListener (event_emitter.rs): its entry in the peers
    \* map, the connection task and the listener task it spawns, the oneshot
    \* disconnect channel, the blocks in the task's channel and in the listener's
    \* block channel, the queued PeerEvents; history: the listener calls made,
    \* and whether disconnect_peer has returned true
    listener_peers, ct_pc, lt_pc, disconnect_tx, block_tx, block_sender, event_sender,
    listener_calls, disconnect_returned

vars == <<peers, peer_ids, current_index, highest_peak, lock,
          request_chan, request_queue, dpc, dsend,
          n_workers, wpeer, wpc, wchan, wreq, wblock,
          n_requests, reply, dispatch_log, selected_at, last_gap, last_entry_gap,
          ls_pc, ls_outstanding, ls_blocks, ls_peaks, adding, returned, emitted, heard,
          hs_pc, hs_network_id, hs_frame, hs_result, hs_requests,
          rb_pc, rb_attempts, rb_skipped, rb_result, rb_height, rb_block,
          ps_pc, ps_ws_stream, ps_since_request, ps_attempt, ps_calls, ps_since_frame,
          ps_gap, pb_block, pb_parsed, pb_data,
          cd_message, cd_bytes, cd_decoded,
          ix_blocks, ix_last_indexed_height, ix_result,
          listener_peers, ct_pc, lt_pc, disconnect_tx, block_tx, block_sender,
          event_sender, listener_calls, disconnect_returned>>

pool_vars == <<peers, peer_ids, current_index, highest_peak>>
worker_vars == <<n_workers, wpeer, wpc, wchan, wreq, wblock>>
history_vars == <<dispatch_log, selected_at, last_gap, last_entry_gap>>
listener_vars == <<ls_pc, ls_outstanding, ls_blocks, ls_peaks>>
handshake_vars == <<hs_pc, hs_network_id, hs_frame, hs_result, hs_requests>>
\* what the pool's tasks leave alone, and what the listening session leaves alone
request_vars == <<rb_pc, rb_attempts, rb_skipped, rb_result, rb_height, rb_block>>
session_vars == <<ps_pc, ps_ws_stream, ps_since_request, ps_attempt, ps_calls,
                  ps_since_frame, ps_gap>>
parser_vars == <<pb_block, pb_parsed, pb_data>>
codec_vars == <<cd_message, cd_bytes, cd_decoded>>
indexer_vars == <<ix_blocks, ix_last_indexed_height, ix_result>>
connection_vars == <<listener_peers, ct_pc, lt_pc, disconnect_tx, block_tx, block_sender,
                     event_sender, listener_calls, disconnect_returned>>
library_vars == <<codec_vars, indexer_vars, connection_vars>>
protocol_vars == <<handshake_vars, request_vars, session_vars, parser_vars, library_vars>>
all_pool_vars == <<peers, peer_ids, current_index, highest_peak, lock, request_chan,
                   request_queue, dpc, dsend, n_workers, wpeer, wpc, wchan, wreq, wblock,
                   n_requests, reply, dispatch_log, selected_at, last_gap, last_entry_gap,
                   adding, returned, emitted, heard>>

\* what each of the protocol's parts leaves alone
outside_handshake ==
    <<all_pool_vars, listener_vars, request_vars, session_vars, parser_vars, library_vars>>
outside_request ==
    <<all_pool_vars, listener_vars, handshake_vars, session_vars, parser_vars, library_vars>>
outside_session ==
    <<all_pool_vars, listener_vars, handshake_vars, request_vars, parser_vars, library_vars>>
outside_parser ==
    <<all_pool_vars, listener_vars, handshake_vars, request_vars, session_vars, library_vars>>
outside_codec ==
    <<all_pool_vars, listener_vars, handshake_vars, request_vars, session_vars, parser_vars,
      indexer_vars, connection_vars>>
outside_indexer ==
    <<all_pool_vars, listener_vars, handshake_vars, request_vars, session_vars, parser_vars,
      codec_vars, connection_vars>>
outside_connection ==
    <<all_pool_vars, listener_vars, handshake_vars, request_vars, session_vars, parser_vars,
      codec_vars, indexer_vars>>

\* ---- time
now == RATE_LIMIT_MS

Earlier(t, d) == IF t > d THEN t - d ELSE 0

\* Instant::now().checked_sub(Duration::from_millis(RATE_LIMIT_MS)).unwrap_or(Instant::now())
InitialLastUsed == IF now >= RATE_LIMIT_MS THEN now - RATE_LIMIT_MS ELSE now

\* ---- sequences
Range(s) == {s[i] : i \in 1..Len(s)}

\* only the first occurrence removed
RECURSIVE RetainFirst(_, _)
RetainFirst(s, x) ==
    IF s = <<>> THEN <<>>
    ELSE IF Head(s) = x THEN Tail(s)
         ELSE <<Head(s)>> \o RetainFirst(Tail(s), x)

\* guard.peer_ids.retain(|id| id != &peer_id)
RECURSIVE Retain(_, _)
Retain(s, x) ==
    IF s = <<>> THEN <<>>
    ELSE IF Head(s) = x THEN Retain(Tail(s), x)
         ELSE <<Head(s)>> \o Retain(Tail(s), x)

NoRequest == [id |-> 0, height |-> 0]
NoSend == [id |-> 0, height |-> 0, to |-> 0]
GetBlock(r) == [type |-> "GetBlock", id |-> r.id, height |-> r.height]
Shutdown == [type |-> "Shutdown", id |-> 0, height |-> 0]

\* A send on a worker channel: dropped when the receiver is gone.
SendTo(chans, w, msg) ==
    IF wpc[w] = "done" THEN chans ELSE [chans EXCEPT ![w] = Append(@, msg)]

Init ==
    /\ peers = <<>>
    /\ peer_ids = <<>>
    /\ current_index = 0
    /\ highest_peak = None
    /\ lock = "free"
    /\ request_chan = <<>>
    /\ request_queue = <<>>
    /\ dpc = "top"
    /\ dsend = NoSend
    /\ n_workers = 0
    /\ wpeer = [w \in Workers |-> "A"]
    /\ wpc = [w \in Workers |-> "unspawned"]
    /\ wchan = [w \in Workers |-> <<>>]
    /\ wreq = [w \in Workers |-> NoRequest]
    /\ wblock = [w \in Workers |-> None]
    /\ n_requests = 0
    /\ reply = <<>>
    /\ dispatch_log = <<>>
    /\ selected_at = [w \in Workers |-> 0]
    /\ last_gap = now
    /\ last_entry_gap = now
    /\ ls_pc = "listening"
    /\ ls_outstanding = <<>>
    /\ ls_blocks = <<>>
    /\ ls_peaks = 0
    /\ hs_pc = "new"
    /\ hs_network_id = "mainnet"
    /\ hs_frame = None
    /\ hs_result = "none"
    /\ hs_requests = 0
    /\ rb_pc = "called"
    /\ rb_attempts = 0
    /\ rb_skipped = 0
    /\ rb_result = "none"
    /\ rb_height = 1
    /\ rb_block = None
    /\ ps_pc = "idle"
    /\ ps_ws_stream = None
    /\ ps_since_request = MIN_INTERVAL_MS
    /\ ps_attempt = 1
    /\ ps_calls = 0
    /\ ps_since_frame = MIN_INTERVAL_MS
    /\ ps_gap = MIN_INTERVAL_MS
    /\ pb_block = None
    /\ pb_parsed = None
    /\ pb_data = None
    /\ cd_message = None
    /\ cd_bytes = None
    /\ cd_decoded = None
    /\ ix_blocks = {}
    /\ ix_last_indexed_height = None
    /\ ix_result = "none"
    /\ listener_peers = None
    /\ ct_pc = "unspawned"
    /\ lt_pc = "unspawned"
    /\ disconnect_tx = "none"
    /\ block_tx = 0
    /\ block_sender = 0
    /\ event_sender = <<>>
    /\ listener_calls = [block_received |-> 0, peer_connected |-> 0, peer_disconnected |-> 0]
    /\ disconnect_returned = FALSE
    /\ adding = None
    /\ returned = None
    /\ emitted = None
    /\ heard = None

\* a step that returns nothing from remove_peer and invokes no callback
Quiet == returned' = None /\ emitted' = None /\ heard' = None

\* callback(event), invoked by `task` while `lock` is as it is in this state
Emit(kind, peer_id, task) ==
    emitted' = Some([kind |-> kind, peer_id |-> peer_id, lock_held |-> lock = task])

\* ---- ChiaPeerPool::add_peer
add_peer(p) ==
    /\ UNCHANGED <<listener_vars, protocol_vars>>
    /\ Quiet
    /\ n_workers < MaxWorkers
    /\ lock = "free"
    /\ lock' = "add_peer"
    /\ adding' = Some(p)
    /\ LET w == n_workers + 1 IN
        /\ n_workers' = w
        /\ wpeer' = [wpeer EXCEPT ![w] = p]
        /\ wpc' = [wpc EXCEPT ![w] = "recv"]
        /\ peers' = (p :> [last_used |-> InitialLastUsed,
                           is_connected |-> TRUE,
                           worker_tx |-> w,
                           peak_height |-> None]) @@ peers
        /\ peer_ids' = Append(peer_ids, p)
    /\ UNCHANGED <<current_index, highest_peak, request_chan, request_queue,
                   dpc, dsend, wchan, wreq, wblock, n_requests, reply, history_vars>>

\* emit_peer_connected, then Ok(peer_id): the guard goes out of scope
add_peer_returns ==
    /\ UNCHANGED <<listener_vars, protocol_vars>>
    /\ adding # None
    /\ Emit("peer_connected", TheOne(adding), "add_peer")
    /\ returned' = None /\ heard' = None
    /\ adding' = None
    /\ lock' = "free"
    /\ UNCHANGED <<pool_vars, request_chan, request_queue, dpc, dsend, worker_vars,
                   n_requests, reply, history_vars>>

\* worker_tx.send(..).await returns at once: the receiver is gone or there is room
CanSend(w) == wpc[w] = "done" \/ Len(wchan[w]) < WORKER_CHANNEL_CAPACITY

\* ---- ChiaPeerPool::remove_peer
remove_peer(p) ==
    /\ UNCHANGED <<listener_vars, protocol_vars>>
    /\ emitted' = None /\ heard' = None
    /\ UNCHANGED adding
    /\ lock = "free"
    /\ IF p \in DOMAIN peers
       THEN /\ CanSend(peers[p].worker_tx)
            /\ wchan' = SendTo(wchan, peers[p].worker_tx, Shutdown)
            /\ peers' = [q \in DOMAIN peers \ {p} |-> peers[q]]
            /\ peer_ids' = Retain(peer_ids, p)
            /\ returned' = Some(TRUE)
       ELSE /\ returned' = Some(FALSE)
            /\ UNCHANGED <<peers, peer_ids, wchan>>
    /\ UNCHANGED <<current_index, highest_peak, lock, request_chan, request_queue,
                   dpc, dsend, n_workers, wpeer, wpc, wreq, wblock, n_requests,
                   reply, history_vars>>

\* ---- ChiaPeerPool::shutdown
shutdown ==
    /\ UNCHANGED <<listener_vars, protocol_vars>>
    /\ Quiet
    /\ UNCHANGED adding
    /\ lock = "free"
    /\ peers # <<>>
    /\ \A p \in DOMAIN peers : CanSend(peers[p].worker_tx)
    /\ wchan' = [w \in Workers |->
                    IF (\E p \in DOMAIN peers : peers[p].worker_tx = w) /\ wpc[w] # "done"
                    THEN Append(wchan[w], Shutdown) ELSE wchan[w]]
    /\ peers' = <<>>
    /\ peer_ids' = <<>>
    /\ UNCHANGED <<current_index, highest_peak, lock, request_chan, request_queue,
                   dpc, dsend, n_workers, wpeer, wpc, wreq, wblock, n_requests,
                   reply, history_vars>>

\* ---- ChiaPeerPool::get_block_by_height: the send on request_sender; the caller then
\* awaits the reply channel. `most` bounds the number of calls.
get_block_by_height(height, most) ==
    /\ UNCHANGED <<listener_vars, protocol_vars>>
    /\ Quiet
    /\ UNCHANGED adding
    /\ n_requests < most
    /\ n_requests' = n_requests + 1
    /\ IF dpc = "dead"
       THEN /\ reply' = Append(reply, "Connection")
            /\ UNCHANGED request_chan
       ELSE /\ Len(request_chan) < REQUEST_CHANNEL_CAPACITY
            /\ request_chan' = Append(request_chan, [id |-> n_requests + 1, height |-> height])
            /\ reply' = Append(reply, "pending")
    /\ UNCHANGED <<pool_vars, lock, request_queue, dpc, dsend, worker_vars, history_vars>>

\* ---- the passing of time
ClockAdvance(d) ==
    /\ peers' = [p \in DOMAIN peers |->
                    [peers[p] EXCEPT !.last_used = Earlier(@, d)]]
    /\ selected_at' = [w \in Workers |-> Earlier(selected_at[w], d)]

Tick(d) ==
    /\ UNCHANGED <<listener_vars, protocol_vars>>
    /\ Quiet
    /\ UNCHANGED adding
    /\ ClockAdvance(d)
    /\ UNCHANGED <<peer_ids, current_index, highest_peak, lock, request_chan,
                   request_queue, dpc, dsend, worker_vars, n_requests, reply,
                   dispatch_log, last_gap, last_entry_gap>>

\* ---- ChiaPeerPool::start_request_processor (the dispatcher task)
Eligible(peer_id) ==
    /\ peer_id \in DOMAIN peers
    /\ peers[peer_id].is_connected
    /\ now - peers[peer_id].last_used >= RATE_LIMIT_MS

\* the cursor left on the peer that was selected
RECURSIVE ScanCursorStays(_, _)
ScanCursorStays(k, index) ==
    IF k = 0 THEN [available_peer |-> None, current_index |-> index]
    ELSE LET peer_id == peer_ids[index + 1]
         IN  IF Eligible(peer_id)
             THEN [available_peer |-> Some(peer_id), current_index |-> index]
             ELSE ScanCursorStays(k - 1, (index + 1) % Len(peer_ids))

\* the scan `for _ in 0..guard.peer_ids.len()`, with k iterations to go
RECURSIVE Scan(_, _)
Scan(k, index) ==
    IF k = 0 THEN [available_peer |-> None, current_index |-> index]
    ELSE LET peer_id == peer_ids[index + 1]
             next == (index + 1) % Len(peer_ids)
         IN  IF Eligible(peer_id)
             THEN [available_peer |-> Some(peer_id), current_index |-> next]
             ELSE Scan(k - 1, next)

\* guard.peer_ids[guard.current_index] out of bounds
IndexPanics == Len(peer_ids) > 0 /\ current_index >= Len(peer_ids)

RequestIds(s) == {s[i].id : i \in 1..Len(s)}

\* the reply channels in `ids` are dropped: their callers get an error
Dropped(ids, err) ==
    [r \in 1..Len(reply) |-> IF r \in ids /\ reply[r] = "pending" THEN err ELSE reply[r]]

\* history: the dispatcher selects peer_id, whose table entry names worker w.
\* selected_at[w]: the instant of the last selection of the entry made by the
\* add_peer that spawned w; last_gap: the time since the last selection of the
\* same peer_id; last_entry_gap: since the last selection of the same entry
LastSelection(peer_id) ==
    LET at == {selected_at[w] : w \in {v \in Workers : wpeer[v] = peer_id}}
    IN  CHOOSE t \in at : \A u \in at : u <= t

Selected(peer_id, w) ==
    /\ dispatch_log' = Append(dispatch_log, w)
    /\ last_gap' = now - LastSelection(peer_id)
    /\ last_entry_gap' = now - selected_at[w]
    /\ selected_at' = [selected_at EXCEPT ![w] = now]

\* the request taken from the newest end of the queue
pop_back(queue) ==
    [request |-> queue[Len(queue)], rest |-> SubSeq(queue, 1, Len(queue) - 1)]

\* request_queue.pop_front() on a queue that is not empty
pop_front(queue) ==
    [request |-> Head(queue), rest |-> Tail(queue)]

DispatcherProcess ==
    /\ UNCHANGED <<listener_vars, protocol_vars>>
    /\ Quiet
    /\ UNCHANGED adding
    /\ dpc = "top"
    /\ IF request_queue = <<>>
       THEN /\ dpc' = "select"
            /\ UNCHANGED <<pool_vars, lock, request_chan, request_queue, dsend,
                           worker_vars, n_requests, reply, history_vars>>
       ELSE
        /\ lock = "free"
        /\ IF IndexPanics
           THEN \* the task unwinds: its queue and the receiver are dropped
                /\ dpc' = "dead"
                /\ reply' = Dropped(RequestIds(request_queue) \cup RequestIds(request_chan),
                                    "Connection")
                /\ request_queue' = <<>>
                /\ request_chan' = <<>>
                /\ UNCHANGED <<pool_vars, lock, dsend, worker_vars, n_requests, history_vars>>
           ELSE LET s == Scan(Len(peer_ids), current_index) IN
                /\ current_index' = s.current_index
                /\ IF s.available_peer = None
                   THEN /\ dpc' = "select"
                        /\ UNCHANGED <<peers, peer_ids, highest_peak, lock, request_chan,
                                       request_queue, dsend, worker_vars, n_requests,
                                       reply, history_vars>>
                   ELSE LET peer_id == CHOOSE x \in s.available_peer : TRUE
                            w == peers[peer_id].worker_tx
                            request == pop_front(request_queue).request
                        IN
                        /\ request_queue' = pop_front(request_queue).rest
                        /\ peers' = [peers EXCEPT ![peer_id].last_used = now]
                        /\ Selected(peer_id, w)
                        /\ IF wpc[w] = "done"
                           THEN \* "Worker channel closed"; continue
                                /\ reply' = Dropped({request.id}, "Connection")
                                /\ dpc' = "top"
                                /\ UNCHANGED <<lock, dsend, wchan>>
                           ELSE IF Len(wchan[w]) < WORKER_CHANNEL_CAPACITY
                           THEN /\ wchan' = [wchan EXCEPT ![w] = Append(@, GetBlock(request))]
                                /\ dpc' = "select"
                                /\ UNCHANGED <<lock, dsend, reply>>
                           ELSE \* the channel is full: the send suspends, the guard is held
                                /\ dpc' = "sending"
                                /\ lock' = "dispatcher"
                                /\ dsend' = [id |-> request.id, height |-> request.height, to |-> w]
                                /\ UNCHANGED <<wchan, reply>>
                        /\ UNCHANGED <<peer_ids, highest_peak, request_chan, n_workers,
                                       wpeer, wpc, wreq, wblock, n_requests>>

\* the suspended send completes once the worker has taken a message
DispatcherSendResumes ==
    /\ UNCHANGED <<listener_vars, protocol_vars>>
    /\ Quiet
    /\ UNCHANGED adding
    /\ dpc = "sending"
    /\ LET w == dsend.to IN
        /\ CanSend(w)
        /\ wchan' = SendTo(wchan, w, GetBlock(dsend))
        /\ reply' = IF wpc[w] = "done" THEN Dropped({dsend.id}, "Connection") ELSE reply
        /\ dpc' = IF wpc[w] = "done" THEN "top" ELSE "select"
    /\ lock' = "free"
    /\ dsend' = NoSend
    /\ UNCHANGED <<pool_vars, request_chan, request_queue, n_workers, wpeer, wpc,
                   wreq, wblock, n_requests, history_vars>>

\* select!: a request arrives on the channel
DispatcherRecv ==
    /\ UNCHANGED <<listener_vars, protocol_vars>>
    /\ Quiet
    /\ UNCHANGED adding
    /\ dpc = "select"
    /\ request_chan # <<>>
    /\ request_queue' = Append(request_queue, Head(request_chan))
    /\ request_chan' = Tail(request_chan)
    /\ dpc' = "top"
    /\ UNCHANGED <<pool_vars, lock, dsend, worker_vars, n_requests, reply, history_vars>>

\* select!: sleep(50 ms) elapses, d >= 50 ms after it began
DispatcherSleep(d) ==
    /\ UNCHANGED <<listener_vars, protocol_vars>>
    /\ Quiet
    /\ UNCHANGED adding
    /\ dpc = "select"
    /\ d >= DISPATCH_SLEEP_MS
    /\ ClockAdvance(d)
    /\ dpc' = "top"
    /\ UNCHANGED <<peer_ids, current_index, highest_peak, lock, request_chan,
                   request_queue, dsend, worker_vars, n_requests, reply,
                   dispatch_log, last_gap, last_entry_gap>>

\* ---- ChiaPeerPool::peer_worker
\* the sender of worker w's channel lives in the PeerInfo that names it
SenderAlive(w) == \E p \in DOMAIN peers : peers[p].worker_tx = w

\* the comparison with the current peak left out
RaisedPeakUnchecked(peak, h) ==
    Some(h)

\* peer_info.peak_height / guard.highest_peak after a block of height h was parsed
RaisedPeak(peak, h) ==
    IF peak = None THEN Some(h)
    ELSE IF h > TheOne(peak) THEN Some(h) ELSE peak

\* the callback invoked after every block
NewPeakEmittedAlways(peak, h) == TRUE

\* the branches of `match guard.highest_peak` that invoke the new-peak callback
NewPeakEmitted(peak, h) ==
    IF peak = None THEN TRUE ELSE h > TheOne(peak)

\* receiver.recv(): a request, Shutdown, or None once the sender is dropped; after
\* the loop the worker calls the disconnected callback and returns
WorkerRecv(w) ==
    /\ UNCHANGED <<listener_vars, protocol_vars>>
    /\ returned' = None /\ heard' = None
    /\ UNCHANGED adding
    /\ wpc[w] = "recv"
    /\ IF wchan[w] # <<>>
       THEN LET request == Head(wchan[w]) IN
            IF request.type = "GetBlock"
            THEN /\ wpc' = [wpc EXCEPT ![w] = "fetch"]
                 /\ wreq' = [wreq EXCEPT ![w] = [id |-> request.id, height |-> request.height]]
                 /\ wchan' = [wchan EXCEPT ![w] = Tail(@)]
                 /\ emitted' = None
                 /\ UNCHANGED reply
            ELSE /\ wpc' = [wpc EXCEPT ![w] = "done"]
                 /\ wchan' = [wchan EXCEPT ![w] = <<>>]
                 /\ reply' = Dropped(RequestIds(Tail(wchan[w])), "Connection")
                 /\ Emit("peer_disconnected", wpeer[w], "worker")
                 /\ UNCHANGED wreq
       ELSE /\ ~SenderAlive(w)
            /\ ~(dpc = "sending" /\ dsend.to = w)
            /\ wpc' = [wpc EXCEPT ![w] = "done"]
            /\ Emit("peer_disconnected", wpeer[w], "worker")
            /\ UNCHANGED <<wchan, wreq, reply>>
    /\ UNCHANGED <<pool_vars, lock, request_chan, request_queue, dpc, dsend,
                   n_workers, wpeer, wblock, n_requests, history_vars>>

\* connect, handshake, request_block_by_height or parse_full_block fails:
\* response_tx.send(Err(e)), back to recv
WorkerFetchFails(w, e) ==
    /\ UNCHANGED <<listener_vars, protocol_vars>>
    /\ Quiet
    /\ UNCHANGED adding
    /\ wpc[w] = "fetch"
    /\ reply' = [reply EXCEPT ![wreq[w].id] = e]
    /\ wreq' = [wreq EXCEPT ![w] = NoRequest]
    /\ wpc' = [wpc EXCEPT ![w] = "recv"]
    /\ UNCHANGED <<pool_vars, lock, request_chan, request_queue, dpc, dsend,
                   n_workers, wpeer, wchan, wblock, n_requests, history_vars>>

\* the peer answers RESPOND_BLOCK with a block that parses, of height h
WorkerFetchOk(w, h) ==
    /\ UNCHANGED <<listener_vars, protocol_vars>>
    /\ Quiet
    /\ UNCHANGED adding
    /\ wpc[w] = "fetch"
    /\ wblock' = [wblock EXCEPT ![w] = Some(h)]
    /\ wpc' = [wpc EXCEPT ![w] = "record"]
    /\ UNCHANGED <<pool_vars, lock, request_chan, request_queue, dpc, dsend,
                   n_workers, wpeer, wchan, wreq, n_requests, reply, history_vars>>

\* inner.write(): the peer's and the pool's peak, then response_tx.send(Ok(block));
\* the task spawned by the dispatcher parses it again and answers the caller
WorkerRecordsPeak(w) ==
    /\ UNCHANGED <<listener_vars, protocol_vars>>
    /\ returned' = None /\ heard' = None
    /\ UNCHANGED adding
    /\ wpc[w] = "record"
    /\ lock = "free"
    /\ LET h == TheOne(wblock[w]) IN
        /\ peers' = IF wpeer[w] \in DOMAIN peers
                    THEN [peers EXCEPT ![wpeer[w]].peak_height = RaisedPeak(@, h)]
                    ELSE peers
        /\ highest_peak' = RaisedPeak(highest_peak, h)
        \* drop(guard), then the new-peak callback when the aggregate was raised
        /\ IF NewPeakEmitted(highest_peak, h)
           THEN emitted' = Some([kind |-> "new_peak", peer_id |-> wpeer[w],
                                 lock_held |-> lock = "worker",
                                 old_peak |-> highest_peak, new_peak |-> h])
           ELSE emitted' = None
    /\ reply' = [reply EXCEPT ![wreq[w].id] = "Block"]
    /\ wreq' = [wreq EXCEPT ![w] = NoRequest]
    /\ wblock' = [wblock EXCEPT ![w] = None]
    /\ wpc' = [wpc EXCEPT ![w] = "recv"]
    /\ UNCHANGED <<peer_ids, current_index, lock, request_chan, request_queue, dpc,
                   dsend, n_workers, wpeer, wchan, n_requests, history_vars>>

\* request_block_by_height reads a NEW_PEAK_WALLET frame announcing height h while
\* the answer is outstanding: `debug!(...); continue`
WorkerSkipsNewPeakWallet(w, h) ==
    /\ UNCHANGED <<listener_vars, protocol_vars>>
    /\ wpc[w] = "fetch"
    /\ heard' = Some([worker |-> w, peer_id |-> wpeer[w], height |-> h,
                      raises |-> highest_peak = None \/ h > TheOne(highest_peak)])
    /\ returned' = None
    /\ emitted' = None
    /\ UNCHANGED <<pool_vars, lock, request_chan, request_queue, dpc, dsend,
                   worker_vars, n_requests, reply, history_vars, adding>>

Worker(w) ==
    \/ WorkerRecv(w)
    \/ \E e \in FetchErrors : WorkerFetchFails(w, e)
    \/ \E h \in Heights : WorkerFetchOk(w, h)
    \/ WorkerRecordsPeak(w)

\* ---- PeerConnection::listen_for_blocks: one inbound frame per step
\* NEW_PEAK_WALLET(h): a REQUEST_BLOCK for h is sent at once (`sent`: the send succeeds)
ListenNewPeakWallet(h, sent) ==
    /\ ls_pc = "listening"
    /\ ls_peaks < MaxPeaks
    /\ ls_peaks' = ls_peaks + 1
    /\ ls_outstanding' = IF sent THEN Append(ls_outstanding, h) ELSE ls_outstanding
    /\ UNCHANGED <<ls_pc, ls_blocks, all_pool_vars, protocol_vars>>

\* RESPOND_BLOCK, the peer's answer to the oldest outstanding request:
\* block_sender.send(block)
ListenRespondBlock ==
    /\ ls_pc = "listening"
    /\ ls_outstanding # <<>>
    /\ Len(ls_blocks) < BLOCK_CHANNEL_CAPACITY
    /\ ls_blocks' = Append(ls_blocks, Head(ls_outstanding))
    /\ ls_outstanding' = Tail(ls_outstanding)
    /\ UNCHANGED <<ls_pc, ls_peaks, all_pool_vars, protocol_vars>>

\* REJECT_BLOCK, the peer's answer to the oldest outstanding request: ignored
ListenRejectBlock ==
    /\ ls_pc = "listening"
    /\ ls_outstanding # <<>>
    /\ ls_outstanding' = Tail(ls_outstanding)
    /\ UNCHANGED <<ls_pc, ls_blocks, ls_peaks, all_pool_vars, protocol_vars>>

\* NEW_PEAK, COIN_STATE_UPDATE, other kinds, undecodable frames, pings
ListenIgnored ==
    /\ ls_pc = "listening"
    /\ UNCHANGED vars

\* a Close frame or the end of the stream: Ok(())
ListenClose ==
    /\ ls_pc = "listening"
    /\ ls_pc' = "closed"
    /\ ls_outstanding' = <<>>
    /\ UNCHANGED <<ls_blocks, ls_peaks, all_pool_vars, protocol_vars>>

\* a transport error: Err(WebSocket)
ListenError ==
    /\ ls_pc = "listening"
    /\ ls_pc' = "failed"
    /\ ls_outstanding' = <<>>
    /\ UNCHANGED <<ls_blocks, ls_peaks, all_pool_vars, protocol_vars>>

\* the connection task takes a block from block_rx
ForwardBlock ==
    /\ ls_blocks # <<>>
    /\ ls_blocks' = Tail(ls_blocks)
    /\ UNCHANGED <<ls_pc, ls_outstanding, ls_peaks, all_pool_vars, protocol_vars>>

\* ---- PeerConnection::handshake, on one connection of a worker
NetworkIds == {"mainnet", "testnet11"}
NodeTypes == {"FullNode", "Harvester", "Farmer", "Timelord", "Introducer", "Wallet",
              "DataLayer"}
MessageTypes == {"Handshake", "NewPeak", "NewPeakWallet", "RequestBlock", "RespondBlock",
                 "RejectBlock", "CoinStateUpdate"}

\* what ws_stream.next() can yield: a WebSocket frame, an error, or the end of the
\* stream.  A Binary frame decodes to a Message or not; a Handshake message's
\* payload decodes to a Handshake or not.
Frame(ws, decodes, msg_type, payload_decodes, node_type, network_id) ==
    [ws |-> ws, decodes |-> decodes, msg_type |-> msg_type,
     payload_decodes |-> payload_decodes, node_type |-> node_type,
     network_id |-> network_id]

OtherFrames ==
    {Frame(ws, FALSE, "none", FALSE, "none", "none") :
        ws \in {"Close", "Ping", "Pong", "Text", "Error", "End"}}

BinaryFrames ==
    {Frame("Binary", FALSE, "none", FALSE, "none", "none")}
    \cup {Frame("Binary", TRUE, t, FALSE, "none", "none") : t \in MessageTypes}
    \cup {Frame("Binary", TRUE, "Handshake", TRUE, n, id) :
            n \in NodeTypes, id \in NetworkIds}

Frames == BinaryFrames \cup OtherFrames

\* the comparison of the network ids left out
HandshakeResultAnyNetwork(frame, network_id) ==
    IF frame.ws = "End" THEN "Connection"
    ELSE IF frame.ws = "Error" THEN "WebSocket"
    ELSE IF frame.ws = "Close" THEN "Connection"
    ELSE IF frame.ws # "Binary" THEN "Protocol"
    ELSE IF ~frame.decodes THEN "Protocol"
    ELSE IF frame.msg_type # "Handshake" THEN "Protocol"
    ELSE IF ~frame.payload_decodes THEN "Protocol"
    ELSE IF frame.node_type # "FullNode" THEN "Protocol"
    ELSE "Ok"

\* the result of handshake() once `frame` came back from ws_stream.next()
HandshakeResult(frame, network_id) ==
    IF frame.ws = "End" THEN "Connection"
    ELSE IF frame.ws = "Error" THEN "WebSocket"
    ELSE IF frame.ws = "Close" THEN "Connection"
    ELSE IF frame.ws # "Binary" THEN "Protocol"
    ELSE IF ~frame.decodes THEN "Protocol"
    ELSE IF frame.msg_type # "Handshake" THEN "Protocol"
    ELSE IF ~frame.payload_decodes THEN "Protocol"
    ELSE IF frame.node_type # "FullNode" THEN "Protocol"
    ELSE IF frame.network_id # network_id THEN "Protocol"
    ELSE "Ok"

\* PeerConnection::new(host, port, network_id) and connect()
HandshakeConnect(network_id) ==
    /\ hs_pc = "new"
    /\ hs_pc' = "connected"
    /\ hs_network_id' = network_id
    /\ UNCHANGED <<hs_frame, hs_result, hs_requests, outside_handshake>>

\* our Handshake frame is sent (`sent`: ws_stream.send succeeds)
HandshakeSend(sent) ==
    /\ hs_pc = "connected"
    /\ hs_pc' = IF sent THEN "sent" ELSE "returned"
    /\ hs_result' = IF sent THEN hs_result ELSE "WebSocket"
    /\ UNCHANGED <<hs_network_id, hs_frame, hs_requests, outside_handshake>>

\* the first frame received after it
HandshakeReceive(frame) ==
    /\ hs_pc = "sent"
    /\ hs_pc' = "returned"
    /\ hs_frame' = Some(frame)
    /\ hs_result' = HandshakeResult(frame, hs_network_id)
    /\ UNCHANGED <<hs_network_id, hs_requests, outside_handshake>>

\* peer_worker after handshake(): an error is answered and the connection
\* dropped; otherwise request_block_by_height sends its REQUEST_BLOCK
WorkerAfterHandshake ==
    /\ hs_pc = "returned"
    /\ hs_pc' = "closed"
    /\ hs_requests' = IF hs_result = "Ok" THEN hs_requests + 1 ELSE hs_requests
    /\ UNCHANGED <<hs_network_id, hs_frame, hs_result, outside_handshake>>

\* ---- PeerConnection::request_block_by_height, on a connection that is ready
\* frames that are neither the answer nor the end of the connection
SkippedFrames == {"NewPeakWallet", "CoinStateUpdate", "other message", "undecodable",
                  "Ping", "other frame"}

TimeoutError == "Protocol: Timeout waiting for block response"

\* the id of every REQUEST_BLOCK message: `id: Some(1)`
REQUEST_ID == 1

\* the RESPOND_BLOCK frames a peer can send: the block's height and the message id
RespondBlocks == [height : Heights, id : {None, Some(REQUEST_ID), Some(REQUEST_ID + 1)}]

\* the call for `height`: the REQUEST_BLOCK frame is sent (`sent`: ws_stream.send
\* succeeds)
RequestBlockSend(sent) ==
    /\ rb_pc = "called"
    /\ \E height \in Heights : rb_height' = height
    /\ rb_pc' = IF sent THEN "waiting" ELSE "returned"
    /\ rb_result' = IF sent THEN rb_result ELSE "WebSocket"
    /\ UNCHANGED <<rb_attempts, rb_skipped, rb_block, outside_request>>

\* `while attempts < MAX_ATTEMPTS`: the next frame is read and is one to skip
RequestBlockSkips(frame) ==
    /\ rb_pc = "waiting"
    /\ rb_attempts < MAX_ATTEMPTS
    /\ rb_attempts' = rb_attempts + 1
    /\ rb_skipped' = rb_skipped + 1
    /\ UNCHANGED <<rb_pc, rb_result, rb_height, rb_block, outside_request>>

\* the block of a RESPOND_BLOCK frame
ReturnedBlock(height, frame) == Some(frame)

\* the next frame is read and ends the call: RESPOND_BLOCK (decoded or not),
\* REJECT_BLOCK, Close, a transport error, the end of the stream
RequestBlockEnds(result) ==
    /\ rb_pc = "waiting"
    /\ rb_attempts < MAX_ATTEMPTS
    /\ rb_attempts' = rb_attempts + 1
    /\ rb_pc' = "returned"
    /\ rb_result' = result
    /\ \E frame \in RespondBlocks :
            rb_block' = IF result = "Block" THEN ReturnedBlock(rb_height, frame) ELSE None
    /\ UNCHANGED <<rb_skipped, rb_height, outside_request>>

\* the loop ends without an answer
RequestBlockGivesUp ==
    /\ rb_pc = "waiting"
    /\ ~(rb_attempts < MAX_ATTEMPTS)
    /\ rb_pc' = "returned"
    /\ rb_result' = TimeoutError
    /\ UNCHANGED <<rb_attempts, rb_skipped, rb_height, rb_block, outside_request>>

\* ---- PeerSession::request_block_by_height
\* Elapsed times are kept up to MIN_INTERVAL_MS: the code compares them with
\* nothing larger (PeerSession::new sets last_request_time one second back).
Later(elapsed, d) ==
    IF elapsed + d >= MIN_INTERVAL_MS THEN MIN_INTERVAL_MS ELSE elapsed + d

\* `if elapsed < min_interval { sleep(min_interval - elapsed) }`
WaitTime(elapsed) ==
    IF elapsed < MIN_INTERVAL_MS THEN MIN_INTERVAL_MS - elapsed ELSE 0

\* peer.request_block_by_height sends its REQUEST_BLOCK frame
SessionSendsRequest(since_frame) ==
    /\ ps_gap' = since_frame
    /\ ps_since_frame' = 0
    /\ ps_pc' = "requesting"

\* the call: the rate limit, last_request_time = now, ensure_connected
SessionCall ==
    /\ ps_pc = "idle"
    /\ ps_calls < MaxSessionCalls
    /\ ps_calls' = ps_calls + 1
    /\ ps_attempt' = 1
    /\ ps_since_request' = 0
    /\ LET since_frame == Later(ps_since_frame, WaitTime(ps_since_request)) IN
        IF ps_ws_stream = None
        THEN /\ ps_pc' = "connecting"
             /\ ps_since_frame' = since_frame
             /\ UNCHANGED ps_gap
        ELSE SessionSendsRequest(since_frame)
    /\ UNCHANGED <<ps_ws_stream, outside_session>>

\* ensure_connected: connect() and handshake() return
SessionConnects(ok) ==
    /\ ps_pc = "connecting"
    /\ IF ok
       THEN /\ ps_ws_stream' = Some("ws")
            /\ SessionSendsRequest(ps_since_frame)
       ELSE /\ ps_pc' = "idle"
            /\ UNCHANGED <<ps_ws_stream, ps_since_frame, ps_gap>>
    /\ UNCHANGED <<ps_since_request, ps_attempt, ps_calls, outside_session>>

\* peer.request_block_by_height returns: a block, or an error; after the first
\* error the connection is dropped and the request repeated on a new one
SessionAnswered(ok) ==
    /\ ps_pc = "requesting"
    /\ IF ok \/ ps_attempt = 2
       THEN /\ ps_pc' = "idle"
            /\ UNCHANGED <<ps_ws_stream, ps_attempt>>
       ELSE /\ ps_pc' = "connecting"
            /\ ps_ws_stream' = None
            /\ ps_attempt' = 2
    /\ UNCHANGED <<ps_since_request, ps_calls, ps_since_frame, ps_gap, outside_session>>

\* time passes: between calls, while connecting, while waiting for the answer
SessionTick(d) ==
    /\ ps_since_request' = Later(ps_since_request, d)
    /\ ps_since_frame' = Later(ps_since_frame, d)
    /\ UNCHANGED <<ps_pc, ps_ws_stream, ps_attempt, ps_calls, ps_gap, outside_session>>

\* ---- the block decoders: BlockParser::parse_full_block and process_block_to_data
\* hex::encode of a hash, tree_hash of a puzzle: injective, so the value tagged
Hex(bytes) == <<"hex", bytes>>
TreeHash(puzzle) == <<"tree_hash", puzzle>>

Coin(parent_coin_info, puzzle_hash, amount) ==
    [parent_coin_info |-> parent_coin_info, puzzle_hash |-> puzzle_hash, amount |-> amount]

\* CoinInfo::new
CoinInfo(coin) == Coin(Hex(coin.parent_coin_info), Hex(coin.puzzle_hash), coin.amount)

\* the coin id the cost engine reports for a spent coin
CoinId(coin) == <<"coin_id", coin.parent_coin_info, coin.puzzle_hash, coin.amount>>

SeqsUpTo(S, n) == UNION {[1..k -> S] : k \in 0..n}

RECURSIVE Flatten(_)
Flatten(ss) == IF ss = <<>> THEN <<>> ELSE Head(ss) \o Flatten(Tail(ss))

\* --- the blocks fed to the decoders
ClaimCoins == {Coin("parent1", "ph1", 1), Coin("parent2", "ph2", 2)}

\* an element of the generator's output list: a (parent, puzzle, amount, solution)
\* quadruple, or something the structural walk rejects
SpendElements ==
    {[well_formed |-> TRUE, parent_coin_info |-> "parent3", puzzle |-> "puzzle3", amount |-> 3],
     [well_formed |-> TRUE, parent_coin_info |-> "parent4", puzzle |-> "puzzle4", amount |-> 4]}
OutputElements ==
    SpendElements
    \cup {[well_formed |-> FALSE, parent_coin_info |-> "", puzzle |-> "", amount |-> 0]}

SpentCoin(element) ==
    Coin(element.parent_coin_info, TreeHash(element.puzzle), element.amount)

\* an entry of SpendBundleConditions.spends: the coin id and its CREATE_COINs
NewCoins == {[puzzle_hash |-> "ph5", amount |-> 5], [puzzle_hash |-> "ph6", amount |-> 6]}
Conditions ==
    {[coin_id |-> CoinId(SpentCoin(e)), create_coin |-> cc] :
        e \in SpendElements, cc \in {<<>>} \cup {<<c>> : c \in NewCoins}}

\* a transactions_generator: it fails at some stage, or it runs; then its output
\* is a list or not (`first` fails), and run_block_generator2 gives the
\* conditions or fails
Generators ==
    {[stage |-> st, output |-> None, spends |-> None] :
        st \in {"empty", "unparseable", "no args", "fails"}}
    \cup {[stage |-> "runs", output |-> out, spends |-> sp] :
            out \in {None} \cup {Some(o) : o \in SeqsUpTo(OutputElements, MaxListLen)},
            sp \in {None} \cup {Some(c) : c \in SeqsUpTo(Conditions, MaxListLen)}}

Foliage ==
    [reward_block_hash |-> "reward_block_hash",
     farmer_reward_puzzle_hash |-> "farmer_ph",
     pool_target_puzzle_hash |-> "pool_ph"]

\* reward_chain_block.weight
Weights == {1, 12}

FullBlocks ==
    {[height |-> 1,
      weight |-> weight,
      foliage |-> Foliage,
      foliage_transaction_block |-> ftb,
      transactions_info |-> ti,
      transactions_generator |-> gen] :
        weight \in Weights,
        ftb \in {None, Some([timestamp |-> 7])},
        ti \in {None} \cup {Some([reward_claims_incorporated |-> rc]) :
                                rc \in SeqsUpTo(ClaimCoins, MaxListLen)},
        gen \in {None} \cup {Some(g) : g \in Generators}}

\* --- BlockParser
\* the generator looked for in transactions_info
HasGeneratorFromTransactionsInfo(block) == block.transactions_info # None

HasTransactionsGenerator(block) == block.transactions_generator # None

extract_reward_claims(block) ==
    IF block.transactions_info = None THEN <<>>
    ELSE LET claims == TheOne(block.transactions_info).reward_claims_incorporated
         IN  [i \in 1..Len(claims) |-> CoinInfo(claims[i])]

\* the created coins of one entry of SpendBundleConditions.spends
CreatedBy(spend_cond) ==
    [i \in 1..Len(spend_cond.create_coin) |->
        Coin(Hex(spend_cond.coin_id),
             Hex(spend_cond.create_coin[i].puzzle_hash),
             spend_cond.create_coin[i].amount)]

\* every spend given the created coins of the first entry
extract_created_coins_of_first(spend_index, spends) ==
    IF spends = <<>> THEN <<>> ELSE CreatedBy(spends[1])

\* spend_index is 0-based; SpendBundleConditions::default() has no spends
extract_created_coins(spend_index, spends) ==
    IF spend_index >= Len(spends) THEN <<>>
    ELSE LET spend_cond == spends[spend_index + 1]
         IN  [i \in 1..Len(spend_cond.create_coin) |->
                Coin(Hex(spend_cond.coin_id),
                     Hex(spend_cond.create_coin[i].puzzle_hash),
                     spend_cond.create_coin[i].amount)]

parse_single_coin_spend(coin_spend, spend_index, spends) ==
    IF ~coin_spend.well_formed THEN None
    ELSE Some([coin |-> CoinInfo(SpentCoin(coin_spend)),
               created_coins |-> extract_created_coins(spend_index, spends)])

\* the CoinSpendInfo of the elements from `iter` on
RECURSIVE coin_spends_from(_, _, _)
coin_spends_from(iter, spend_index, spends) ==
    IF iter = <<>> THEN <<>>
    ELSE LET spend_info == parse_single_coin_spend(Head(iter), spend_index, spends)
         IN  IF spend_info = None
             THEN coin_spends_from(Tail(iter), spend_index, spends)
             ELSE <<TheOne(spend_info)>>
                  \o coin_spends_from(Tail(iter), spend_index + 1, spends)

NoCoins == [coins_spent |-> <<>>, coin_spends |-> <<>>, coins_created |-> <<>>]

\* Result<T>
Ok(value) == [ok |-> TRUE, value |-> value]
Err(error) == [ok |-> FALSE, error |-> error]

extract_coin_spends_from_output(output, spends) ==
    IF output = None THEN Ok(NoCoins)
    ELSE LET coin_spends == coin_spends_from(TheOne(output), 0, spends)
         IN  Ok([coins_spent |-> [i \in 1..Len(coin_spends) |-> coin_spends[i].coin],
                 coin_spends |-> coin_spends,
                 coins_created |->
                   Flatten([i \in 1..Len(coin_spends) |-> coin_spends[i].created_coins])])

\* a generator whose failed execution is handed to the caller
process_generator_propagates(generator) ==
    IF generator.stage = "fails" THEN Err("ClvmExecutionError")
    ELSE IF generator.stage # "runs" THEN Ok(NoCoins)
    ELSE extract_coin_spends_from_output(
            generator.output,
            IF generator.spends = None THEN <<>> ELSE TheOne(generator.spends))

process_generator_for_coins(generator) ==
    IF generator.stage # "runs" THEN Ok(NoCoins)
    ELSE extract_coin_spends_from_output(
            generator.output,
            IF generator.spends = None THEN <<>> ELSE TheOne(generator.spends))

\* `?` on the result of process_generator_for_coins hands its error to the caller
parse_full_block(block) ==
    LET result == IF block.transactions_generator = None THEN Ok(NoCoins)
                  ELSE process_generator_for_coins(TheOne(block.transactions_generator))
    IN  IF ~result.ok THEN Err(result.error)
        ELSE LET coins == result.value
             IN  Ok([height |-> block.height,
                     weight |-> ToString(block.weight),
                     timestamp |-> {ftb.timestamp : ftb \in block.foliage_transaction_block},
                     coin_additions |-> extract_reward_claims(block) \o coins.coins_created,
                     coin_removals |-> coins.coins_spent,
                     coin_spends |-> coins.coin_spends,
                     coin_creations |-> coins.coins_created,
                     has_transactions_generator |-> HasTransactionsGenerator(block),
                     generator_size |-> {"len" : g \in block.transactions_generator},
                     generator_bytecode |->
                        {Hex("generator") : g \in block.transactions_generator}])

\* --- process_block_to_data
process_block_to_data(block) ==
    [height |-> block.height,
     weight |-> ToString(block.weight),
     timestamp |-> {ftb.timestamp : ftb \in block.foliage_transaction_block},
     coin_additions |->
        IF block.foliage_transaction_block # None
        THEN <<Coin(Hex(block.foliage.reward_block_hash),
                    Hex(block.foliage.farmer_reward_puzzle_hash), FARMER_REWARD),
               Coin(Hex(block.foliage.reward_block_hash),
                    Hex(block.foliage.pool_target_puzzle_hash), POOL_REWARD)>>
        ELSE <<>>,
     coin_removals |-> extract_reward_claims(block),
     has_transactions_generator |-> block.transactions_generator # None,
     generator_size |-> {"len" : g \in block.transactions_generator}]

\* a block arrives and is decoded
Decode(block) ==
    /\ pb_block = None
    /\ pb_block' = Some(block)
    /\ pb_parsed' = LET parsed == parse_full_block(block)
                     IN  IF parsed.ok THEN Some(parsed.value) ELSE None
    /\ pb_data' = Some(process_block_to_data(block))
    /\ UNCHANGED outside_parser

\* ---- the message codec of chia-listener-core: Message::to_bytes, ::from_bytes
\* ProtocolMessageTypes as u8: the wire numbers of the Chia protocol
MessageKinds ==
    {"Handshake", "NewPeak", "NewPeakWallet", "RequestBlock", "RespondBlock",
     "RejectBlock", "CoinStateUpdate"}

Discriminant(msg_type) ==
    CASE msg_type = "Handshake" -> 1
      [] msg_type = "NewPeak" -> 20
      [] msg_type = "NewTransaction" -> 21
      [] msg_type = "RequestBlock" -> 26
      [] msg_type = "RespondBlock" -> 27
      [] msg_type = "RejectBlock" -> 28
      [] msg_type = "NewPeakWallet" -> 43
      [] msg_type = "CoinStateUpdate" -> 69

\* u16::to_be_bytes, u16::from_be_bytes
to_be_bytes(id) == <<id \div 256, id % 256>>
from_be_bytes(high, low) == high * 256 + low

DataBytes == {0, 1, 255}
MessageIds == {0, 1, 256, 65535}
Messages ==
    [msg_type : MessageKinds,
     id : {None} \cup {Some(id) : id \in MessageIds},
     data : SeqsUpTo(DataBytes, MaxListLen)]

to_bytes(message) ==
    <<Discriminant(message.msg_type)>>
    \o (IF message.id # None THEN <<1>> \o to_be_bytes(TheOne(message.id)) ELSE <<0>>)
    \o message.data

\* the frames that arrive from the network: any bytes
FrameBytes == {0, 1, 3, 20, 255}
WireFrames == SeqsUpTo(FrameBytes, MaxFrameLen)

\* a match that takes every other byte for a handshake
MatchByteLenient(byte) ==
    CASE byte = 1 -> Some("Handshake")
      [] byte = 3 -> Some("NewPeak")
      [] byte = 4 -> Some("NewTransaction")
      [] byte = 5 -> Some("RequestBlock")
      [] byte = 6 -> Some("RespondBlock")
      [] OTHER -> Some("Handshake")

\* the match of from_bytes on the first byte
MatchByte(byte) ==
    CASE byte = 1 -> Some("Handshake")
      [] byte = 3 -> Some("NewPeak")
      [] byte = 4 -> Some("NewTransaction")
      [] byte = 5 -> Some("RequestBlock")
      [] byte = 6 -> Some("RespondBlock")
      [] OTHER -> None

from_bytes(bytes) ==
    IF Len(bytes) < 2 THEN Err("Message too short")
    ELSE LET msg_type == MatchByte(bytes[1])
         IN  IF msg_type = None THEN Err("Unknown message type")
             ELSE IF bytes[2] = 1
                  THEN IF Len(bytes) < 4 THEN Err("Message too short for ID")
                       ELSE Ok([msg_type |-> TheOne(msg_type),
                                id |-> Some(from_be_bytes(bytes[3], bytes[4])),
                                data |-> SubSeq(bytes, 5, Len(bytes))])
                  ELSE Ok([msg_type |-> TheOne(msg_type),
                           id |-> None,
                           data |-> SubSeq(bytes, 3, Len(bytes))])

Encode(message) ==
    /\ cd_message = None
    /\ cd_bytes = None
    /\ cd_message' = Some(message)
    /\ cd_bytes' = Some(to_bytes(message))
    /\ UNCHANGED <<cd_decoded, outside_codec>>

\* a frame arrives from the network
Receive(bytes) ==
    /\ cd_bytes = None
    /\ cd_bytes' = Some(bytes)
    /\ UNCHANGED <<cd_message, cd_decoded, outside_codec>>

DecodeMessage ==
    /\ cd_bytes # None
    /\ cd_decoded = None
    /\ cd_decoded' = Some(from_bytes(TheOne(cd_bytes)))
    /\ UNCHANGED <<cd_message, cd_bytes, outside_codec>>

\* ---- BlockIndexer: the blocks table and IndexerState.last_indexed_height
IndexedHeights == 0..MaxIndexedHeight

\* SELECT MAX(height) FROM blocks: NULL on an empty table
MaxHeightOf(blocks) ==
    IF blocks = {} THEN None
    ELSE Some(CHOOSE h \in blocks : \A k \in blocks : k <= h)

\* BlockIndexer::new: IndexerState::default(), then load_state
load_state ==
    /\ ix_last_indexed_height' = MaxHeightOf(ix_blocks)
    /\ ix_result' = "none"
    /\ UNCHANGED <<ix_blocks, outside_indexer>>

\* insert_block: the transaction fails (begin, an INSERT, commit; `height` is the
\* primary key of blocks) and is rolled back, or commits and the state is updated
insert_block(height, db_fails) ==
    /\ IF db_fails \/ height \in ix_blocks
       THEN /\ ix_result' = "Err"
            /\ UNCHANGED <<ix_blocks, ix_last_indexed_height>>
       ELSE /\ ix_blocks' = ix_blocks \cup {height}
            /\ ix_last_indexed_height' = Some(height)
            /\ ix_result' = "Ok"
    /\ UNCHANGED outside_indexer

\* ---- specifications
\* the pool under every interleaving of its operations
Next ==
    \/ \E p \in PeerIds : add_peer(p)
    \/ add_peer_returns
    \/ \E p \in PeerIds : remove_peer(p)
    \/ shutdown
    \/ \E h \in RequestHeights : get_block_by_height(h, MaxRequests)
    \/ DispatcherProcess
    \/ DispatcherRecv
    \/ DispatcherSleep(ClockQuantum)
    \/ \E w \in Workers : Worker(w)
    \/ Tick(ClockQuantum)

Spec == Init /\ [][Next]_vars

\* two peers, A then B, then a backlog of requests; the clock moves in 50 ms steps
NextRoundRobin ==
    \/ n_workers = 0 /\ add_peer("A")
    \/ n_workers = 1 /\ add_peer("B")
    \/ add_peer_returns
    \/ Len(peer_ids) = 2 /\ \E h \in RequestHeights : get_block_by_height(h, MaxRoundRobinRequests)
    \/ DispatcherProcess
    \/ DispatcherRecv
    \/ DispatcherSleep(DISPATCH_SLEEP_MS)
    \/ \E w \in Workers : Worker(w)
    \/ Tick(DISPATCH_SLEEP_MS)

SpecRoundRobin == Init /\ [][NextRoundRobin]_vars

\* one peer that answers every request, and more requests than its worker channel
\* holds; tokio runs every task that can run, select! picks a ready branch at random
NextLoad ==
    \/ n_workers = 0 /\ add_peer("A")
    \/ add_peer_returns
    \/ get_block_by_height(1, MaxLoadRequests)
    \/ DispatcherProcess
    \/ DispatcherSendResumes
    \/ DispatcherRecv
    \/ DispatcherSleep(RATE_LIMIT_MS)
    \/ WorkerRecv(1)
    \/ WorkerFetchOk(1, 1)
    \/ WorkerRecordsPeak(1)
    \/ Tick(RATE_LIMIT_MS)

SpecLoad ==
    /\ Init /\ [][NextLoad]_vars
    /\ WF_vars(add_peer_returns)
    /\ WF_vars(DispatcherProcess)
    /\ WF_vars(DispatcherSendResumes)
    /\ SF_vars(DispatcherRecv)
    /\ WF_vars(DispatcherSleep(RATE_LIMIT_MS))
    /\ WF_vars(WorkerRecv(1))
    /\ WF_vars(WorkerFetchOk(1, 1))
    /\ WF_vars(WorkerRecordsPeak(1))
    /\ WF_vars(Tick(RATE_LIMIT_MS))

\* two peers whose workers read NEW_PEAK_WALLET frames while they fetch
NextNewPeak ==
    \/ n_workers = 0 /\ add_peer("A")
    \/ n_workers = 1 /\ add_peer("B")
    \/ add_peer_returns
    \/ \E h \in RequestHeights : get_block_by_height(h, MaxPeakRequests)
    \/ DispatcherProcess
    \/ DispatcherRecv
    \/ DispatcherSleep(ClockQuantum)
    \/ \E w \in Workers : Worker(w)
    \/ \E w \in Workers, h \in Heights : WorkerSkipsNewPeakWallet(w, h)
    \/ Tick(ClockQuantum)

SpecNewPeak == Init /\ [][NextNewPeak]_vars

\* requests arriving at a pool that dispatches none
NextBacklog ==
    \/ get_block_by_height(1, MaxBacklogRequests)
    \/ DispatcherProcess
    \/ DispatcherRecv
    \/ DispatcherSleep(DISPATCH_SLEEP_MS)

SpecBacklog ==
    /\ Init /\ [][NextBacklog]_vars
    /\ WF_vars(DispatcherProcess)
    /\ SF_vars(DispatcherRecv)
    /\ WF_vars(DispatcherSleep(DISPATCH_SLEEP_MS))

\* a listening session
NextListen ==
    \/ \E h \in Heights, sent \in BOOLEAN : ListenNewPeakWallet(h, sent)
    \/ ListenRespondBlock
    \/ ListenRejectBlock
    \/ ListenIgnored
    \/ ListenClose
    \/ ListenError
    \/ ForwardBlock

SpecListen == Init /\ [][NextListen]_vars

\* one connection of a worker, from connect() to the block request
NextHandshake ==
    \/ \E network_id \in NetworkIds : HandshakeConnect(network_id)
    \/ \E sent \in BOOLEAN : HandshakeSend(sent)
    \/ \E frame \in Frames : HandshakeReceive(frame)
    \/ WorkerAfterHandshake

SpecHandshake == Init /\ [][NextHandshake]_vars

\* one block request, whatever the peer sends while it is outstanding
NextRequestBlock ==
    \/ \E sent \in BOOLEAN : RequestBlockSend(sent)
    \/ \E frame \in SkippedFrames : RequestBlockSkips(frame)
    \/ \E result \in {"Block", "Protocol", "Connection", "WebSocket"} :
            RequestBlockEnds(result)
    \/ RequestBlockGivesUp

SpecRequestBlock == Init /\ [][NextRequestBlock]_vars

\* a session serving one call after another
NextSession ==
    \/ SessionCall
    \/ \E ok \in BOOLEAN : SessionConnects(ok)
    \/ \E ok \in BOOLEAN : SessionAnswered(ok)
    \/ SessionTick(SessionQuantum)

SpecSession == Init /\ [][NextSession]_vars

\* the decoders on every block of FullBlocks
NextDecode == \E block \in FullBlocks : Decode(block)

SpecDecode == Init /\ [][NextDecode]_vars

\* every message of Messages encoded, or a frame received, then decoded
NextCodec ==
    \/ \E message \in Messages : Encode(message)
    \/ \E bytes \in WireFrames : Receive(bytes)
    \/ DecodeMessage

SpecCodec == Init /\ [][NextCodec]_vars

\* an indexer, restarted at any time
NextIndexer ==
    \/ \E height \in IndexedHeights, db_fails \in BOOLEAN : insert_block(height, db_fails)
    \/ load_state

SpecIndexer == Init /\ [][NextIndexer]_vars

\* ---- ChiaBlockListener of event_emitter.rs: one peer, from add_peer on
\* the entry add_peer inserts
NewPeerConnectionInfo == [disconnect_tx |-> FALSE, is_connected |-> FALSE]

\* guard.peers.get_mut(&peer_id), when the entry is there
MarkConnected(entry, connected) ==
    {[info EXCEPT !.is_connected = connected] : info \in entry}

\* event_sender.send(PeerEvent { event_type, .. })
SendEvent(queue, event_type) == Append(queue, event_type)

\* the blocks read from this peer that have not reached the block listeners
BlocksInFlight == block_tx + block_sender

\* add_peer: the entry is inserted, then start_peer_connection spawns the task
ChiaBlockListener_add_peer ==
    /\ ct_pc = "unspawned"
    /\ listener_peers' = Some(NewPeerConnectionInfo)
    /\ ct_pc' = "store"
    /\ UNCHANGED <<lt_pc, disconnect_tx, block_tx, block_sender, event_sender,
                   listener_calls, disconnect_returned, outside_connection>>

\* disconnect_peer: the entry is removed; the oneshot is fired if the entry holds
\* its sender; true is returned iff there was an entry
ChiaBlockListener_disconnect_peer ==
    /\ ct_pc # "unspawned"
    /\ listener_peers' = None
    /\ disconnect_tx' = IF \E info \in listener_peers : info.disconnect_tx
                        THEN "sent" ELSE disconnect_tx
    /\ disconnect_returned' = (disconnect_returned \/ listener_peers # None)
    /\ UNCHANGED <<ct_pc, lt_pc, block_tx, block_sender, event_sender, listener_calls,
                   outside_connection>>

\* the task creates the oneshot and stores its sender in the entry, if the
\* entry is still there; otherwise the sender stays a local of the task
StoreDisconnectChannel ==
    /\ ct_pc = "store"
    /\ ct_pc' = "connect"
    /\ IF listener_peers # None
       THEN /\ listener_peers' = {[info EXCEPT !.disconnect_tx = TRUE] : info \in listener_peers}
            /\ disconnect_tx' = "stored"
       ELSE /\ disconnect_tx' = "task"
            /\ UNCHANGED listener_peers
    /\ UNCHANGED <<lt_pc, block_tx, block_sender, event_sender, listener_calls,
                   disconnect_returned, outside_connection>>

\* a sender that is a local of the task is dropped when the task ends
TaskEnds(tx) == IF tx = "task" THEN "dropped" ELSE tx

\* peer.connect() and peer.handshake(): on failure an Error event and return;
\* on success the Connected event, is_connected = true, and the listener task
ConnectAndHandshake(ok) ==
    /\ ct_pc = "connect"
    /\ IF ok
       THEN /\ event_sender' = SendEvent(event_sender, "Connected")
            /\ listener_peers' = MarkConnected(listener_peers, TRUE)
            /\ lt_pc' = "select"
            /\ ct_pc' = "forward"
            /\ UNCHANGED disconnect_tx
       ELSE /\ event_sender' = SendEvent(event_sender, "Error")
            /\ ct_pc' = "done"
            /\ disconnect_tx' = TaskEnds(disconnect_tx)
            /\ UNCHANGED <<listener_peers, lt_pc>>
    /\ UNCHANGED <<block_tx, block_sender, listener_calls, disconnect_returned,
                   outside_connection>>

\* the listener task has run to its end, by either branch of its select!
ListenerEnded == lt_pc \in {"closed", "failed", "disconnected"}

\* select!, first branch: listen_for_blocks passes a block on while it runs
ListenerPassesBlock ==
    /\ lt_pc = "select"
    /\ BlocksInFlight + listener_calls.block_received < MaxListenedBlocks
    /\ block_tx < BLOCK_CHANNEL_CAPACITY
    /\ block_tx' = block_tx + 1
    /\ UNCHANGED <<listener_peers, ct_pc, lt_pc, disconnect_tx, block_sender, event_sender,
                   listener_calls, disconnect_returned, outside_connection>>

\* select!, first branch: listen_for_blocks returns, Ok on a normal close and
\* Err on a transport error (an Error event); then the Disconnected event and
\* is_connected = false
ListenerReturns(result) ==
    /\ lt_pc = "select"
    /\ lt_pc' = IF result = "Err" THEN "failed" ELSE "closed"
    /\ event_sender' = SendEvent(IF result = "Err" THEN SendEvent(event_sender, "Error")
                                 ELSE event_sender, "Disconnected")
    /\ listener_peers' = MarkConnected(listener_peers, FALSE)
    /\ UNCHANGED <<ct_pc, disconnect_tx, block_tx, block_sender, listener_calls,
                   disconnect_returned, outside_connection>>

\* select!, second branch: disconnect_rx resolves, the oneshot fired or its
\* sender dropped; then the Disconnected event and is_connected = false
ListenerDisconnected ==
    /\ lt_pc = "select"
    /\ disconnect_tx \in {"sent", "dropped"}
    /\ lt_pc' = "disconnected"
    /\ event_sender' = SendEvent(event_sender, "Disconnected")
    /\ listener_peers' = MarkConnected(listener_peers, FALSE)
    /\ UNCHANGED <<ct_pc, disconnect_tx, block_tx, block_sender, listener_calls,
                   disconnect_returned, outside_connection>>

\* while let Some(block) = block_rx.recv().await: the block is converted and
\* sent on the listener's block channel
ForwardBlockEvent ==
    /\ ct_pc = "forward"
    /\ block_tx > 0
    /\ block_tx' = block_tx - 1
    /\ block_sender' = block_sender + 1
    /\ UNCHANGED <<listener_peers, ct_pc, lt_pc, disconnect_tx, event_sender,
                   listener_calls, disconnect_returned, outside_connection>>

\* block_rx.recv() yields None: block_tx was dropped with the listener task
ForwardLoopEnds ==
    /\ ct_pc = "forward"
    /\ block_tx = 0
    /\ ListenerEnded
    /\ ct_pc' = "done"
    /\ disconnect_tx' = TaskEnds(disconnect_tx)
    /\ UNCHANGED <<listener_peers, lt_pc, block_tx, block_sender, event_sender,
                   listener_calls, disconnect_returned, outside_connection>>

\* event_loop, first branch: a BlockEvent goes to the block listeners
EventLoopBlock ==
    /\ block_sender > 0
    /\ block_sender' = block_sender - 1
    /\ listener_calls' = [listener_calls EXCEPT !.block_received = @ + 1]
    /\ UNCHANGED <<listener_peers, ct_pc, lt_pc, disconnect_tx, block_tx, event_sender,
                   disconnect_returned, outside_connection>>

\* the listeners a PeerEvent of this type is handed to
ListenersOf(event_type) ==
    CASE event_type = "Connected" -> "peer_connected"
      [] event_type = "Disconnected" -> "peer_disconnected"
      [] event_type = "Error" -> "peer_disconnected"

\* event_loop, second branch: a PeerEvent goes to the listeners of its type
EventLoopPeerEvent ==
    /\ event_sender # <<>>
    /\ event_sender' = Tail(event_sender)
    /\ listener_calls' =
        LET called == ListenersOf(Head(event_sender))
        IN  IF called = "peer_connected"
            THEN [listener_calls EXCEPT !.peer_connected = @ + 1]
            ELSE IF called = "peer_disconnected"
            THEN [listener_calls EXCEPT !.peer_disconnected = @ + 1]
            ELSE listener_calls
    /\ UNCHANGED <<listener_peers, ct_pc, lt_pc, disconnect_tx, block_tx, block_sender,
                   disconnect_returned, outside_connection>>

\* one peer added to a ChiaBlockListener, disconnected at any time; every task
\* that can run does, the peer sends and closes when it likes
NextConnection ==
    \/ ChiaBlockListener_add_peer
    \/ ChiaBlockListener_disconnect_peer
    \/ StoreDisconnectChannel
    \/ \E ok \in BOOLEAN : ConnectAndHandshake(ok)
    \/ ListenerPassesBlock
    \/ \E result \in {"Ok", "Err"} : ListenerReturns(result)
    \/ ListenerDisconnected
    \/ ForwardBlockEvent
    \/ ForwardLoopEnds
    \/ EventLoopBlock
    \/ EventLoopPeerEvent

SpecConnection ==
    /\ Init /\ [][NextConnection]_vars
    /\ WF_vars(StoreDisconnectChannel)
    /\ WF_vars(\E ok \in BOOLEAN : ConnectAndHandshake(ok))
    /\ WF_vars(ListenerDisconnected)
    /\ WF_vars(ForwardBlockEvent)
    /\ WF_vars(ForwardLoopEnds)
    /\ WF_vars(EventLoopBlock)
    /\ WF_vars(EventLoopPeerEvent)

\* ---- properties

\* C1: highest_peak never decreases: once it is Some(h), every later value is
\* Some(h') with h' >= h; it is never lowered and never reset to None.
C1_HighestPeakMonotonic ==
    [][highest_peak # None =>
        /\ highest_peak' # None
        /\ TheOne(highest_peak') >= TheOne(highest_peak)]_vars

\* the peer that reported the highest block is gone, another peer has fetched a
\* lower block, and the aggregate still stands at the highest
C1_Witness ==
    /\ highest_peak = Some(MaxHeight)
    /\ \E p \in DOMAIN peers : peers[p].peak_height = Some(1)
    /\ \A p \in DOMAIN peers : peers[p].peak_height # Some(MaxHeight)

\* C2: two successive dispatcher selections of the same peer_id are at least
\* RATE_LIMIT_MS apart.
C2_SelectionsSpaced ==
    last_gap >= RATE_LIMIT_MS

\* the limiter alone: two successive selections of the same table entry (no
\* add_peer of that peer_id between them) are at least RATE_LIMIT_MS apart
C2_EntrySelectionsSpaced ==
    last_entry_gap >= RATE_LIMIT_MS

\* the same entry has been selected twice
C2_Witness ==
    \E i, j \in 1..Len(dispatch_log) : i < j /\ dispatch_log[i] = dispatch_log[j]

\* C3: a session has at most one outstanding block request: no second
\* REQUEST_BLOCK is sent before the previous one was answered or has failed.
C3_AtMostOneOutstanding ==
    Len(ls_outstanding) <= 1

\* C4: with peers A and B added in that order and a backlog of requests, the
\* dispatcher hands successive requests to A, B, A, B, ... whatever the timing.
C4_StrictAlternation ==
    \A i \in 1..Len(dispatch_log) :
        wpeer[dispatch_log[i]] = IF i % 2 = 1 THEN "A" ELSE "B"

\* four requests have been handed out
C4_Witness ==
    Len(dispatch_log) = MaxRoundRobinRequests

\* requests are handed out in the order of their ids: the i-th selection is request i
ThreeFailuresInARow(w) ==
    \E i \in 1..Len(dispatch_log) :
        /\ i + 2 <= Len(dispatch_log)
        /\ \A k \in i..(i + 2) : dispatch_log[k] = w /\ reply[k] \in FetchErrors

\* C5: a peer whose requests fail three times in a row is evicted: its entry is
\* removed from the table and its worker has returned (the worker calls the
\* disconnected callback on its way out), so it is never selected again.
C5_EvictedAfterThreeFailures ==
    \A w \in Workers :
        ThreeFailuresInARow(w) => (~SenderAlive(w) /\ wpc[w] = "done")

\* C6: the requests accepted and not yet handed to a worker never exceed
\* REQUEST_CHANNEL_CAPACITY; a further producer blocks.
C6_PendingBounded ==
    Len(request_chan) + Len(request_queue) <= REQUEST_CHANNEL_CAPACITY

Pending(r) == r <= Len(reply) /\ reply[r] = "pending"
Answered(r) == r <= Len(reply) /\ reply[r] # "pending"

\* C7: every get_block_by_height issued while a connected peer is in the pool
\* eventually receives its reply; none is left pending forever.
C7_EveryRequestAnswered ==
    \A r \in 1..MaxLoadRequests :
        (Pending(r) /\ peers # <<>>) ~> Answered(r)

\* C8: a request that arrives at a pool without peers (and without a discovery
\* hook) fails with NoPeersAvailable instead of staying queued.
C8_EmptyPoolFails ==
    \A r \in 1..MaxBacklogRequests :
        (Pending(r) /\ peers = <<>>) ~> Answered(r)

\* C9: when shutdown() returns the table is empty and every worker has exited.
C9_ShutdownDrains ==
    [][shutdown => (peers' = <<>> /\ \A w \in Workers : wpc'[w] \in {"unspawned", "done"})]_vars

Signalled(w) == \E i \in 1..Len(wchan[w]) : wchan[w][i].type = "Shutdown"

\* C10: a request in flight on a worker when its peer is removed or the pool is
\* shut down is answered with a Disconnected error (the session ended under the
\* request: in the code a ChiaError::Connection), and the worker then exits.
C10_InFlightDisconnected ==
    [][\A w \in Workers :
        (wpc[w] \in {"fetch", "record"} /\ Signalled(w) /\ reply'[wreq[w].id] # "pending")
            => reply'[wreq[w].id] = "Connection"]_vars

C12_DisconnectedAfterLeaving ==
    \A e \in emitted :
        e.kind = "peer_disconnected" => e.peer_id \notin Range(peer_ids)

\* C13: no event callback (peer_connected, peer_disconnected, new_peak) is
\* invoked while the invoking task holds the pool lock.
C13_CallbacksOutsideLock ==
    \A e \in emitted : ~e.lock_held

\* the first frame is a HANDSHAKE message of a FULL_NODE on the configured network
PeerHandshakeAccepted(frame, network_id) ==
    /\ frame.ws = "Binary"
    /\ frame.decodes
    /\ frame.msg_type = "Handshake"
    /\ frame.payload_decodes
    /\ frame.node_type = "FullNode"
    /\ frame.network_id = network_id

HasConnected(w) == w \in Range(dispatch_log)

\* C15: peer_connected is emitted for a peer only after its handshake has
\* succeeded (the session is ready).
C15_ConnectedAfterHandshake ==
    \A e \in emitted :
        e.kind = "peer_connected" =>
            /\ e.peer_id \in DOMAIN peers
            /\ HasConnected(peers[e.peer_id].worker_tx)

\* C16: request_block_by_height skips non-matching frames; a RESPOND_BLOCK
\* preceded by at most 100 skipped frames is returned, and the call fails with
\* a timeout only when more than 100 frames have been skipped.
C16_ToleratesHundredSkipped ==
    /\ (rb_pc = "waiting" /\ rb_skipped <= 100) => ENABLED RequestBlockEnds("Block")
    /\ rb_result = TimeoutError => rb_skipped > 100

\* C17: within one PeerSession, two consecutive outbound REQUEST_BLOCK frames
\* are at least MIN_INTERVAL_MS apart, also when a call's first attempt fails.
C17_RequestFramesSpaced ==
    ps_gap >= MIN_INTERVAL_MS
\* C18: for every block decoded by parse_full_block, coin_removals is the
\* block's reward_claims_incorporated followed by the coin of each element of
\* coin_spends, so its length is the sum of the two lengths.
C18_RemovalsAreClaimsThenSpends ==
    \A block \in pb_block : \A parsed \in pb_parsed :
        /\ parsed.coin_removals =
              extract_reward_claims(block)
              \o [i \in 1..Len(parsed.coin_spends) |-> parsed.coin_spends[i].coin]
        /\ Len(parsed.coin_removals) =
              Len(extract_reward_claims(block)) + Len(parsed.coin_spends)

\* a decoded block with a reward claim and a spend
C18_Witness ==
    \E block \in pb_block : \E parsed \in pb_parsed :
        /\ Len(extract_reward_claims(block)) = 1
        /\ Len(parsed.coin_spends) = 1
        /\ Len(parsed.coin_removals) = 1

\* C19: for every decoded block, coin_additions is the farmer reward coin then
\* the pool reward coin, both with parent reward_block_hash and present exactly
\* when foliage_transaction_block is present, followed by coin_creations; reward
\* claims never appear in coin_additions.
C19_AdditionsAreRewardsThenCreations ==
    \A block \in pb_block : \A parsed \in pb_parsed :
        LET rewards ==
              IF block.foliage_transaction_block # None
              THEN <<Coin(Hex(block.foliage.reward_block_hash),
                          Hex(block.foliage.farmer_reward_puzzle_hash), FARMER_REWARD),
                     Coin(Hex(block.foliage.reward_block_hash),
                          Hex(block.foliage.pool_target_puzzle_hash), POOL_REWARD)>>
              ELSE <<>>
        IN  /\ parsed.coin_additions = rewards \o parsed.coin_creations
            /\ Len(parsed.coin_additions) = Len(rewards) + Len(parsed.coin_creations)
            /\ Range(extract_reward_claims(block)) \cap Range(parsed.coin_additions) = {}

\* a decoded transaction block with a reward claim and a created coin
C19_Witness ==
    \E block \in pb_block : \E parsed \in pb_parsed :
        /\ block.foliage_transaction_block # None
        /\ Len(extract_reward_claims(block)) = 1
        /\ Len(parsed.coin_creations) = 1
        /\ Len(parsed.coin_additions) = 2
        /\ parsed.coin_additions[1] = extract_reward_claims(block)[1]

\* C20: for every decoded block whose transactions_generator is absent,
\* coin_spends and coin_creations are empty, has_transactions_generator is
\* false and generator_size and generator_bytecode are None.
C20_NoGeneratorNoSpends ==
    \A block \in pb_block : \A parsed \in pb_parsed :
        block.transactions_generator = None =>
            /\ parsed.coin_spends = <<>>
            /\ parsed.coin_creations = <<>>
            /\ parsed.has_transactions_generator = FALSE
            /\ parsed.generator_size = None
            /\ parsed.generator_bytecode = None

\* a decoded transaction block with reward claims and no generator
C20_Witness ==
    \E block \in pb_block : \E parsed \in pb_parsed :
        /\ block.transactions_generator = None
        /\ block.foliage_transaction_block # None
        /\ Len(extract_reward_claims(block)) = 2
        /\ parsed.coin_spends = <<>>
        /\ ~parsed.has_transactions_generator

\* a generator that fails before it yields a list of spends
GeneratorFails(generator) ==
    generator.stage # "runs" \/ generator.output = None

\* C21: generator processing never makes the enclosing decode fail: whatever the
\* generator (empty, unparseable, failing argument setup, failing execution,
\* malformed output), parse_full_block returns a block with
\* has_transactions_generator true, and on such a failure its three coin lists
\* from the generator are empty.
C21_GeneratorNeverFailsDecode ==
    \A block \in pb_block : \A generator \in block.transactions_generator :
        /\ pb_parsed # None
        /\ \A parsed \in pb_parsed :
            /\ parsed.has_transactions_generator
            /\ GeneratorFails(generator) =>
                  /\ parsed.coin_spends = <<>>
                  /\ parsed.coin_removals = <<>>
                  /\ parsed.coin_creations = <<>>

\* a decoded block whose generator failed in execution
C21_Witness ==
    \E block \in pb_block : \E generator \in block.transactions_generator :
        /\ generator.stage = "fails"
        /\ \E parsed \in pb_parsed :
              parsed.has_transactions_generator /\ parsed.coin_spends = <<>>

\* the id of a decoded coin, in hex: the coin id of the coin its fields encode
Unhex(hex) == hex[2]
CoinInfoId(info) ==
    Hex(CoinId(Coin(Unhex(info.parent_coin_info), Unhex(info.puzzle_hash), info.amount)))

C23_CodecRoundTrip ==
    \A message \in cd_message : \A decoded \in cd_decoded :
        decoded = Ok(message)

\* a message with an id and two bytes of payload, encoded and decoded
C23_Witness ==
    \E message \in cd_message :
        /\ message.msg_type = "NewPeakWallet"
        /\ message.id = Some(256)
        /\ Len(message.data) = 2
        /\ cd_decoded # None

\* the peak heights in the table
KnownPeaks == {TheOne(peers[p].peak_height) : p \in {q \in DOMAIN peers : peers[q].peak_height # None}}

\* C24: in every pool state highest_peak is the maximum of peak_height over the
\* entries in the table, and None exactly when no entry has a peak height,
\* also after remove_peer or shutdown took the entry with the maximum away.
C24_HighestPeakIsTableMax ==
    IF KnownPeaks = {} THEN highest_peak = None
    ELSE highest_peak = Some(CHOOSE h \in KnownPeaks : \A k \in KnownPeaks : k <= h)

\* the peer that reported the highest block was removed and the table is empty
C24_Witness ==
    /\ highest_peak = Some(MaxHeight)
    /\ peers = <<>>
    /\ \E w \in Workers : wpc[w] = "done"

\* C25: a NEW_PEAK_WALLET frame read by a session, also while a block request is
\* outstanding, sets the peer's peak_height to the announced height, raises
\* highest_peak and emits new_peak when the height exceeds it, and the session
\* keeps waiting for its response.
C25_NewPeakWalletUpdatesTip ==
    \A frame \in heard :
        /\ frame.peer_id \in DOMAIN peers =>
              peers[frame.peer_id].peak_height = Some(frame.height)
        /\ frame.raises =>
              /\ highest_peak = Some(frame.height)
              /\ \E e \in emitted : e.kind = "new_peak" /\ e.peer_id = frame.peer_id
        /\ wpc[frame.worker] = "fetch"

\* a worker of a listed peer has read an announcement above the pool's peak
\* while its request is outstanding
C25_Witness ==
    \E frame \in heard :
        /\ frame.peer_id \in DOMAIN peers
        /\ highest_peak = Some(1)
        /\ frame.height = MaxHeight
        /\ frame.raises
        /\ wpc[frame.worker] = "fetch"

\* C26: get_last_indexed_height() is the highest height indexed so far: after
\* any sequence of insert_block calls it is the maximum height in the blocks
\* table, the value load_state computes on restart.
C26_LastIndexedIsHighest ==
    ix_last_indexed_height = MaxHeightOf(ix_blocks)

\* two blocks inserted, the lower one last
C26_Witness ==
    /\ ix_result = "Ok"
    /\ Cardinality(ix_blocks) = 2
    /\ ix_last_indexed_height # None
    /\ \E h \in ix_blocks : h > TheOne(ix_last_indexed_height)

\* C27: whenever peer_ids is non-empty the round-robin cursor is a valid index
\* of it, so the dispatcher's scan never indexes out of bounds and the
\* dispatcher task never terminates.
C27_CursorValid ==
    /\ Len(peer_ids) > 0 => current_index < Len(peer_ids)
    /\ dpc # "dead"

\* the dispatcher task has ended, with requests answered by the dropped channel
C27_Witness ==
    /\ dpc = "dead"
    /\ Len(peer_ids) = 1
    /\ current_index = 1
    /\ \E r \in 1..Len(reply) : reply[r] = "Connection"

\* C28: the pool never deadlocks: in no reachable state does the dispatcher hold
\* the write lock, suspended in a send to a full worker channel, while that
\* worker waits for the same lock to record the height of a fetched block.
C28_NoDeadlock ==
    ~ /\ dpc = "sending"
      /\ lock = "dispatcher"
      /\ Len(wchan[dsend.to]) = WORKER_CHANNEL_CAPACITY
      /\ wpc[dsend.to] = "record"

\* C29: the pool lock is held only across in-memory map updates: no task is
\* suspended on a channel send, network I/O or a sleep while it holds the lock.
C29_LockOnlyAcrossMapUpdates ==
    lock = "dispatcher" => dpc # "sending"

\* the dispatcher is suspended in its send while the worker is still fetching
C29_Witness ==
    /\ lock = "dispatcher"
    /\ dpc = "sending"
    /\ wpc[dsend.to] = "fetch"

\* C30: request and response are strictly correlated: the block returned for a
\* request at height h is the response to that request, never a RESPOND_BLOCK
\* carrying a block of another height or another correlation id.
C30_ResponseCorrelated ==
    rb_result = "Block" =>
        \A block \in rb_block :
            block.height = rb_height /\ block.id = Some(REQUEST_ID)

\* a call for height 1 has returned the block of a frame with the request's id
C30_Witness ==
    /\ rb_result = "Block"
    /\ rb_height = 1
    /\ \E block \in rb_block : block.height = MaxHeight /\ block.id = Some(REQUEST_ID)

\* C31: a session is not self-reconnecting: after a block request has failed the
\* session opens no new connection and sends no further request frame for that
\* call; the failure goes back to the caller.
C31_NotSelfReconnecting ==
    ps_pc \in {"connecting", "requesting"} => ps_attempt = 1

\* the second request frame of one call is out, on a connection opened after the
\* first request failed
C31_Witness ==
    /\ ps_pc = "requesting"
    /\ ps_attempt = 2
    /\ ps_ws_stream # None

\* C32: the join of spends and creations is positional: the i-th extracted coin
\* spend carries exactly the CREATE_COIN list of entry i of the second
\* execution's conditions, in order and with that entry's coin id as parent, and
\* every spend beyond the entries (every spend when that execution failed) has
\* no created coins.
C32_JoinIsPositional ==
    \A block \in pb_block : \A generator \in block.transactions_generator :
    \A parsed \in pb_parsed :
        LET spends == IF generator.spends = None THEN <<>> ELSE TheOne(generator.spends)
        IN  \A i \in 1..Len(parsed.coin_spends) :
                parsed.coin_spends[i].created_coins =
                    IF i <= Len(spends) THEN CreatedBy(spends[i]) ELSE <<>>

\* two spends extracted, the conditions hold two entries of which only the
\* second creates a coin
C32_Witness ==
    \E block \in pb_block : \E generator \in block.transactions_generator :
    \E parsed \in pb_parsed :
        /\ Len(parsed.coin_spends) = 2
        /\ generator.spends # None
        /\ Len(TheOne(generator.spends)) = 2
        /\ parsed.coin_spends[1].created_coins = <<>>
        /\ Len(parsed.coin_spends[2].created_coins) = 1

\* the tags for which from_bytes has no kind
UnknownTag(byte) == byte \notin {1, 3, 4, 5, 6}

\* C33: from_bytes returns an error, and no message, for every frame with an
\* unknown kind tag, every frame shorter than 2 bytes, and every frame whose
\* presence flag is 1 but which is shorter than 4 bytes.
C33_MalformedFramesRejected ==
    \A bytes \in cd_bytes : \A decoded \in cd_decoded :
        (\/ Len(bytes) < 2
         \/ UnknownTag(bytes[1])
         \/ (bytes[2] = 1 /\ Len(bytes) < 4))
            => ~decoded.ok

\* a handshake frame that announces an id and holds one byte of it, rejected
C33_Witness ==
    \E bytes \in cd_bytes : \E decoded \in cd_decoded :
        /\ cd_message = None
        /\ Len(bytes) = 3
        /\ bytes[1] = 1
        /\ bytes[2] = 1
        /\ decoded = Err("Message too short for ID")

\* C34: a new_peak event is emitted exactly when a reported height exceeds the
\* aggregate: every emitted new_peak{old, new, peer_id} has old = None or
\* old < new, old and new being highest_peak just before and just after the
\* update, and no event is emitted when the aggregate stays as it is.
C34_NewPeakOnlyWhenRaised ==
    [][/\ \A e \in emitted' :
            e.kind = "new_peak" =>
                /\ e.old_peak = highest_peak
                /\ Some(e.new_peak) = highest_peak'
                /\ e.old_peak = None \/ TheOne(e.old_peak) < e.new_peak
       /\ highest_peak' # highest_peak =>
            \E e \in emitted' : e.kind = "new_peak"]_vars

\* a new_peak that raised the aggregate from 1, and a later block below the
\* aggregate recorded without an event
C34_Witness ==
    /\ highest_peak = Some(MaxHeight)
    /\ emitted = None
    /\ \E p \in DOMAIN peers : peers[p].peak_height = Some(1)
    /\ \E r \in 1..Len(reply) : reply[r] = "Block"

\* the requests the pool accepted that have not been handed to a worker
Waiting(chan, queue) == RequestIds(chan) \cup RequestIds(queue)

\* C35: requests are handed to workers in the order the pool accepted them:
\* the dispatcher takes the head of its queue, and a request handed to a worker
\* (put on its channel, or held by the suspended send) was accepted before
\* every request still waiting in the queue or in the request channel.
C35_DispatchIsFifo ==
    [][/\ (dpc = "top" /\ dpc' # "dead" /\ request_queue' # request_queue) =>
            request_queue' = Tail(request_queue)
       /\ \A w \in Workers :
            (Len(wchan'[w]) > Len(wchan[w])
                /\ wchan'[w][Len(wchan'[w])].type = "GetBlock") =>
                \A id \in Waiting(request_chan', request_queue') :
                    wchan'[w][Len(wchan'[w])].id < id
       /\ (dsend' # NoSend) =>
            \A id \in Waiting(request_chan', request_queue') : dsend'.id < id]_vars

\* two requests have been handed over, the second accepted being the last
\* handed, while a third still waits
C35_Witness ==
    /\ Len(dispatch_log) >= 2
    /\ \E w \in Workers :
        /\ wchan[w] # <<>>
        /\ wchan[w][Len(wchan[w])] = GetBlock([id |-> 2, height |-> 1])
    /\ 3 \in Waiting(request_chan, request_queue)

\* C36: in every pool state peer_ids has no duplicates and its elements are
\* exactly the keys of the peers map, so get_connected_peers lists each peer
\* once, also after add_peer was called twice with the same host:port.
C36_PeerIdsAreTheKeys ==
    /\ \A i, j \in 1..Len(peer_ids) : peer_ids[i] = peer_ids[j] => i = j
    /\ Range(peer_ids) = DOMAIN peers

\* one entry in the table, listed twice
C36_Witness ==
    /\ DOMAIN peers = {"A"}
    /\ peer_ids = <<"A", "A">>

\* C37: for every FullBlock without a transactions_generator the two decoders
\* agree: parse_full_block and process_block_to_data give the same height,
\* weight, timestamp, coin_additions and coin_removals.
C37_DecodersAgree ==
    \A block \in pb_block, parsed \in pb_parsed, data \in pb_data :
        block.transactions_generator = None =>
            /\ parsed.height = data.height
            /\ parsed.weight = data.weight
            /\ parsed.timestamp = data.timestamp
            /\ parsed.coin_additions = data.coin_additions
            /\ parsed.coin_removals = data.coin_removals

\* a transaction block with one reward claim and no generator: the claim is an
\* addition of one decoder and a removal of the other
C37_Witness ==
    \E block \in pb_block, parsed \in pb_parsed, data \in pb_data :
        /\ block.transactions_generator = None
        /\ block.foliage_transaction_block # None
        /\ Len(extract_reward_claims(block)) = 1
        /\ parsed.weight = "12" /\ data.weight = "12"
        /\ parsed.coin_additions = extract_reward_claims(block)
        /\ data.coin_removals = extract_reward_claims(block)
        /\ parsed.coin_removals = <<>>
        /\ Len(data.coin_additions) = 2

\* the connection task of the peer and its listener task have ended
ConnectionEnded == ct_pc = "done" /\ (lt_pc = "unspawned" \/ ListenerEnded)

\* C38: after disconnect_peer(p) has returned true the connection task of p
\* terminates and no later blockReceived event for p is emitted, however
\* disconnect_peer interleaves with the task spawned by add_peer.
C38_DisconnectStopsPeer ==
    /\ [][disconnect_returned =>
            listener_calls'.block_received = listener_calls.block_received]_vars
    /\ (disconnect_returned ~> ConnectionEnded)

\* disconnect_peer returned true before the task stored its sender; the peer
\* is connected, listened to, and a block of it has reached the block listeners
C38_Witness ==
    /\ disconnect_returned
    /\ disconnect_tx = "task"
    /\ lt_pc = "select"
    /\ listener_calls.peer_connected = 1
    /\ listener_calls.block_received >= 1

\* C39: the peerDisconnected listeners are invoked at most once per peer
\* connection, whether it ends by a normal close, a disconnect request or a
\* transport error.
C39_DisconnectedAtMostOnce ==
    listener_calls.peer_disconnected <= 1

\* a connection ended by a transport error: both of its events were handed to
\* the peerDisconnected listeners
C39_Witness ==
    /\ lt_pc = "failed"
    /\ ~disconnect_returned
    /\ event_sender = <<>>
    /\ listener_calls.peer_disconnected = 2

====
